---------------------------- MODULE Spec2Model ----------------------------
(***************************************************************************)
(* A model of varlociraptor-inspect: the three decoders of plotting.py     *)
(* (visualize_event_probabilities, visualize_allele_frequency_distribution,*)
(* visualize_observations) and the request handler main_view of            *)
(* views/main.py.                                                          *)
(*                                                                         *)
(* Python strings are sequences of one-character strings.  Floating point  *)
(* numbers are fixed-point integers in units of 1e-4.  A probability       *)
(* 10 ** (-phred / 10) is kept exactly, as its decimal logarithm in units  *)
(* of 1e-5.                                                                *)
(***************************************************************************)
EXTENDS Integers, Sequences, FiniteSets, TLC

VARIABLES
    pc,                 \* position of the running call
    raised,             \* the exception that ended the call, or NoException
    \* visualize_observations
    obs,                \* sample["OBS"]
    obs_string,
    matches,
    obs_idx,            \* how many matches the for loop has consumed
    ref_observations,
    alt_observations,
    max_count,
    ref_chart,
    alt_chart,
    \* visualize_event_probabilities
    info,               \* record.info.items(), in iteration order
    info_pos,           \* how many items the for loop has consumed
    prob_data,
    event_df,           \* the data frame of the returned chart
    \* visualize_allele_frequency_distribution
    af,                 \* sample["AF"]
    afd_src,            \* the pieces afd_entries was written from (history)
    afd_entries,        \* sample["AFD"]
    af_ml,
    entry_pos,          \* index of the entry being split
    parts,              \* the parts of that entry still to process
    afd_data,
    afd_df,             \* the data frame of the returned chart
    \* main_view
    record,             \* the pasted text, by the properties main_view tests
    header_lines,
    tmp_exists,         \* the file at tmp_path exists
    tmp_created,        \* mkstemp returned (history)
    vcf_open,
    sample_names,
    sample_pos,
    shown               \* what st.success / st.error displayed

vars == <<pc, raised, obs, obs_string, matches, obs_idx, ref_observations,
          alt_observations, max_count, ref_chart, alt_chart, info, info_pos,
          prob_data, event_df, af, afd_src, afd_entries, af_ml, entry_pos,
          parts, afd_data, afd_df, record, header_lines, tmp_exists,
          tmp_created, vcf_open, sample_names, sample_pos, shown>>

obsVars == <<obs, obs_string, matches, obs_idx, ref_observations,
             alt_observations, max_count, ref_chart, alt_chart>>
eventVars == <<info, info_pos, prob_data, event_df>>
afdVars == <<af, afd_src, afd_entries, af_ml, entry_pos, parts, afd_data,
             afd_df>>
mainVars == <<record, header_lines, tmp_exists, tmp_created, vcf_open,
              sample_names, sample_pos, shown>>

----------------------------------------------------------------------------
(* Python values *)

PyNone == [tag |-> "None"]
PyStr(chars) == [tag |-> "str", chars |-> chars]
NoException == [type |-> "none"]
NoValue == [tag |-> "unset"]

RECURSIVE Concat(_)
Concat(seqs) == IF seqs = <<>> THEN <<>> ELSE Head(seqs) \o Concat(Tail(seqs))

RECURSIVE SeqsUpTo(_, _)
SeqsUpTo(S, n) ==
    IF n = 0 THEN {<<>>}
    ELSE LET shorter == SeqsUpTo(S, n - 1)
         IN  shorter \cup {Append(s, x) : s \in shorter, x \in S}

Max(a, b) == IF a >= b THEN a ELSE b

\* dict.get(key, key)
DictGet(map, key) == IF key \in DOMAIN map THEN map[key] ELSE key

----------------------------------------------------------------------------
(* Characters *)

DigitChars == <<"0", "1", "2", "3", "4", "5", "6", "7", "8", "9">>
Digits == {DigitChars[i] : i \in 1..10}
LowerChars == <<"a", "b", "c", "d", "e", "f", "g", "h", "i", "j", "k", "l", "m",
                "n", "o", "p", "q", "r", "s", "t", "u", "v", "w", "x", "y", "z">>
UpperChars == <<"A", "B", "C", "D", "E", "F", "G", "H", "I", "J", "K", "L", "M",
                "N", "O", "P", "Q", "R", "S", "T", "U", "V", "W", "X", "Y", "Z">>
\* [a-zA-Z]
Letters == {LowerChars[i] : i \in 1..26} \cup {UpperChars[i] : i \in 1..26}
Superscript2 == "²"
Newline == "\n"

\* str.upper() of one character
Upper(c) ==
    IF \E i \in 1..26 : LowerChars[i] = c
    THEN UpperChars[CHOOSE i \in 1..26 : LowerChars[i] = c]
    ELSE c

\* str.isdigit(): true of the decimal digits and of the digit characters that
\* are not decimal, such as the superscripts
StrIsDigit(c) == c \in Digits \cup {Superscript2}

\* int() accepts decimal digits only
IntAccepts(c) == c \in Digits
DigitVal(c) == (CHOOSE i \in 1..10 : DigitChars[i] = c) - 1

RECURSIVE IntOfDigits(_)
IntOfDigits(ds) ==
    IF ds = <<>> THEN 0
    ELSE 10 * IntOfDigits(SubSeq(ds, 1, Len(ds) - 1)) + DigitVal(ds[Len(ds)])

----------------------------------------------------------------------------
(* visualize_observations: the pattern and re.findall *)

BlockLen == 8
MaxTokens == 3

\* \d+ at position i: the position after the greedy run of digits.  The two
\* letters that follow cannot be digits, so no shorter run can match.
RECURSIVE DigitRunEnd(_, _)
DigitRunEnd(s, i) ==
    IF i <= Len(s) /\ s[i] \in Digits THEN DigitRunEnd(s, i + 1) ELSE i

\* The pattern matches at position i.  "." matches any character but a newline.
MatchesAt(s, i) ==
    LET j == DigitRunEnd(s, i)
    IN  /\ j > i
        /\ j + 1 + BlockLen <= Len(s)
        /\ s[j] \in Letters
        /\ s[j + 1] \in Letters
        /\ \A k \in 1..BlockLen : s[j + 1 + k] # Newline

MatchEnd(s, i) == DigitRunEnd(s, i) + 1 + BlockLen

\* The groups of the match at i: the count, the two letters, 8 characters.
MatchGroups(s, i) ==
    LET j == DigitRunEnd(s, i)
    IN  <<SubSeq(s, i, j - 1), SubSeq(s, j, j + 1)>>
            \o SubSeq(s, j + 2, j + 1 + BlockLen)

\* re.findall: leftmost, non-overlapping matches, scanning from position i.
RECURSIVE FindAll(_, _)
FindAll(s, i) ==
    IF i > Len(s) THEN <<>>
    ELSE IF MatchesAt(s, i)
         THEN <<MatchGroups(s, i)>> \o FindAll(s, MatchEnd(s, i) + 1)
         ELSE FindAll(s, i + 1)

\* match[k], with Python's 0-based k
Group(match, k) == match[k + 1]

strand_map == ("+" :> "Forward strand") @@ ("-" :> "Reverse strand")
                @@ ("*" :> "Both strands")
read_pos_map == ("^" :> "Most common position") @@ ("*" :> "Other position")
                @@ ("." :> "Irrelevant position")
orientation_map == (">" :> "F1R2 orientation") @@ ("<" :> "F2R1 orientation")
                @@ ("*" :> "Unknown orientation")
                @@ ("!" :> "Non-standard orientation")
softclip_map == ("$" :> "Soft clipped") @@ ("." :> "No soft clipping")
indel_map == ("*" :> "Contains indel") @@ ("." :> "No indel")
kr_names == ("N" :> "None") @@ ("E" :> "Equal") @@ ("B" :> "Barely")
                @@ ("P" :> "Positive") @@ ("S" :> "Strong")
                @@ ("V" :> "Very Strong")
                @@ ("n" :> "None") @@ ("e" :> "Equal") @@ ("b" :> "Barely")
                @@ ("p" :> "Positive") @@ ("s" :> "Strong")
                @@ ("v" :> "Very Strong")

\* The positions of the flags within the match.
StrandOf_Shifted(match) == Group(match, 4)
StrandOf(match) == Group(match, 5)
OrientationOf(match) == Group(match, 6)
ReadPositionOf(match) == Group(match, 7)
SoftclipOf(match) == Group(match, 8)
IndelOf(match) == Group(match, 9)

\* allele_type = odds_code[0].upper()
AlleleType_NoUpper(odds_code) == odds_code[1]
AlleleType(odds_code) == Upper(odds_code[1])

\* The edit distance conversion raises when isdigit() accepts a character that
\* int() rejects.
EditDistanceRaises(c) == c # "." /\ StrIsDigit(c) /\ ~IntAccepts(c)

EditDistance(c) ==
    IF c = "." THEN 0 ELSE IF StrIsDigit(c) THEN DigitVal(c) ELSE 0

ObsEntry(idx, match) ==
    [obs_index |-> idx,
     count |-> IntOfDigits(Group(match, 0)),
     PosteriorOdds |-> DictGet(kr_names, Group(match, 1)[2]),
     Strand |-> DictGet(strand_map, StrandOf(match)),
     ReadPosition |-> DictGet(read_pos_map, ReadPositionOf(match)),
     Orientation |-> DictGet(orientation_map, OrientationOf(match)),
     Softclip |-> DictGet(softclip_map, SoftclipOf(match)),
     Indel |-> DictGet(indel_map, IndelOf(match)),
     EditDistance |-> EditDistance(Group(match, 2))]

RECURSIVE SumCounts(_)
SumCounts(observations) ==
    IF observations = <<>> THEN 0
    ELSE Head(observations).count + SumCounts(Tail(observations))

MaxCount_RefOnly(ref, alt) == SumCounts(ref)
MaxCount(ref, alt) == Max(SumCounts(ref), SumCounts(alt))

metrics == <<"PosteriorOdds", "Strand", "ReadPosition", "Orientation",
             "Softclip", "Indel", "EditDistance">>

\* The rows of one panel: one per observation and metric.
RECURSIVE PanelRows(_)
PanelRows(observations) ==
    IF observations = <<>> THEN <<>>
    ELSE LET o == Head(observations)
         IN  [m \in 1..Len(metrics) |->
                 [Metric |-> metrics[m], Category |-> o[metrics[m]],
                  Count |-> o.count, obs_index |-> o.obs_index]]
             \o PanelRows(Tail(observations))

\* create_panel: a panel without observations has no data and no y scale.
CreatePanel(observations, allele, bound) ==
    IF observations = <<>>
    THEN [allele |-> allele, nodata |-> TRUE, rows |-> <<>>]
    ELSE [allele |-> allele, nodata |-> FALSE,
          rows |-> PanelRows(observations), domain |-> <<0, bound>>]

----------------------------------------------------------------------------
(* The observation strings the calls are made with *)

S9 == <<"3", "A", "s", ".", "*", ">", "^", ".", ".">>
S11 == <<"3", "A", "s", ".", ".", ".", "*", ">", "^", ".", ".">>
TokRefEdit12 == <<"1", "2", "r", "s", "1", "2", ".", "+", "<", "*", "$", "*">>
TokAltLower == <<"2", "a", "N", "0", ".", ".", "-", "!", ".", "$", ".">>
TokSuperscript == <<"1", "A", "v", "²", ".", ".", "*", ">", "^", ".", ".">>
TokUnknown == <<"4", "R", "Z", "?", ".", ".", "?", "?", "?", "?", "?">>
TokNewline == <<"5", "A", "b", ".", "\n", ".", "+", ">", "^", ".", ".">>

ObsPieces == {S9, S11, TokRefEdit12, TokAltLower, TokSuperscript, TokUnknown,
              TokNewline, <<"7">>, <<".">>, <<"x">>}

ObsStrings == {Concat(ps) : ps \in SeqsUpTo(ObsPieces, MaxTokens)}

ObsFields ==
    {<<PyStr(s)>> : s \in ObsStrings}
        \cup {<<PyNone>>, <<>>, <<PyStr(S11), PyStr(S11)>>}

ObsIdle ==
    /\ obs = <<>> /\ obs_string = <<>> /\ matches = <<>> /\ obs_idx = 0
    /\ ref_observations = <<>> /\ alt_observations = <<>>
    /\ max_count = 0 /\ ref_chart = NoValue /\ alt_chart = NoValue

EventIdle ==
    /\ info = <<>> /\ info_pos = 0 /\ prob_data = <<>> /\ event_df = NoValue

AfdIdle ==
    /\ af = <<>> /\ afd_src = <<>> /\ afd_entries = <<>> /\ af_ml = NoValue
    /\ entry_pos = 0 /\ parts = <<>> /\ afd_data = <<>> /\ afd_df = NoValue

MainIdle ==
    /\ record = NoValue /\ header_lines = <<>> /\ tmp_exists = FALSE
    /\ tmp_created = FALSE /\ vcf_open = FALSE /\ sample_names = <<>>
    /\ sample_pos = 0 /\ shown = <<>>

----------------------------------------------------------------------------
(* visualize_observations *)

InitObs ==
    /\ pc = "obs_call" /\ raised = NoException
    /\ obs \in ObsFields
    /\ obs_string = <<>> /\ matches = <<>> /\ obs_idx = 0
    /\ ref_observations = <<>> /\ alt_observations = <<>>
    /\ max_count = 0 /\ ref_chart = NoValue /\ alt_chart = NoValue
    /\ EventIdle /\ AfdIdle /\ MainIdle

\* The length check, the placeholder rule and re.findall.
ObsBegin ==
    /\ pc = "obs_call"
    /\ IF Len(obs) # 1
       THEN /\ pc' = "raised"
            /\ raised' = [type |-> "ValueError", field |-> "OBS",
                          found |-> Len(obs)]
            /\ UNCHANGED <<obs_string, matches>>
       ELSE LET s == IF obs[1] = PyNone \/ obs[1] = PyStr(<<".">>)
                     THEN <<>> ELSE obs[1].chars
            IN  /\ obs_string' = s
                /\ matches' = FindAll(s, 1)
                /\ pc' = "obs_loop"
                /\ UNCHANGED raised
    /\ UNCHANGED <<obs, obs_idx, ref_observations, alt_observations,
                   max_count, ref_chart, alt_chart>>
    /\ UNCHANGED <<eventVars, afdVars, mainVars>>

\* One iteration of the loop over the matches.
ObsLoop ==
    /\ pc = "obs_loop"
    /\ obs_idx < Len(matches)
    /\ LET match == matches[obs_idx + 1]
       IN  IF EditDistanceRaises(Group(match, 2))
           THEN /\ pc' = "raised"
                /\ raised' = [type |-> "ValueError", field |-> "int",
                              found |-> Group(match, 2)]
                /\ UNCHANGED <<obs_idx, ref_observations, alt_observations>>
           ELSE /\ IF AlleleType(Group(match, 1)) = "A"
                   THEN /\ alt_observations' =
                              Append(alt_observations, ObsEntry(obs_idx, match))
                        /\ UNCHANGED ref_observations
                   ELSE /\ ref_observations' =
                              Append(ref_observations, ObsEntry(obs_idx, match))
                        /\ UNCHANGED alt_observations
                /\ obs_idx' = obs_idx + 1
                /\ UNCHANGED <<pc, raised>>
    /\ UNCHANGED <<obs, obs_string, matches, max_count, ref_chart, alt_chart>>
    /\ UNCHANGED <<eventVars, afdVars, mainVars>>

\* After the loop: the shared bound and the two panels.
ObsFinish ==
    /\ pc = "obs_loop"
    /\ obs_idx = Len(matches)
    /\ max_count' = MaxCount(ref_observations, alt_observations)
    /\ ref_chart' = CreatePanel(ref_observations, "REF", max_count')
    /\ alt_chart' = CreatePanel(alt_observations, "ALT", max_count')
    /\ pc' = "done"
    /\ UNCHANGED <<raised, obs, obs_string, matches, obs_idx,
                   ref_observations, alt_observations>>
    /\ UNCHANGED <<eventVars, afdVars, mainVars>>

NextObs == ObsBegin \/ ObsLoop \/ ObsFinish

SpecObs == InitObs /\ [][NextObs]_vars

----------------------------------------------------------------------------
(* Claims about visualize_observations *)

AllObservations == ref_observations \o alt_observations
HasIndex(observations, k) ==
    \E i \in 1..Len(observations) : observations[i].obs_index = k
EntryOf(k) ==
    AllObservations[CHOOSE i \in 1..Len(AllObservations) :
                        AllObservations[i].obs_index = k]
IsAltToken(match) == Group(match, 1)[1] \in {"A", "a"}

C1_Expected ==
    [obs_index |-> 0, count |-> 3, PosteriorOdds |-> "Strong",
     Strand |-> "Both strands", ReadPosition |-> "Most common position",
     Orientation |-> "F1R2 orientation", Softclip |-> "No soft clipping",
     Indel |-> "No indel", EditDistance |-> 0]

\* C1 as stated: decoding "3As.*>^.." yields exactly one Alternate observation
\* (count 3, edit distance 0, Strong, Both strands, F1R2, Most common position,
\* No soft clipping, No indel) and an empty Reference group.
C1_Original ==
    obs = <<PyStr(S9)>> =>
        /\ pc # "raised"
        /\ pc = "done" => /\ alt_observations = <<C1_Expected>>
                          /\ ref_observations = <<>>

\* C1 as amended: "3As.*>^.." has 6 characters after its two letters where the
\* pattern needs 8, so it decodes to two empty groups; with the block padded to
\* 8 characters, "3As...*>^..", decoding yields exactly the one Alternate
\* observation of the claim and an empty Reference group.
C1_Amended ==
    /\ obs = <<PyStr(S9)>> =>
          /\ pc # "raised"
          /\ pc = "done" => /\ alt_observations = <<>>
                            /\ ref_observations = <<>>
    /\ obs = <<PyStr(S11)>> =>
          /\ pc # "raised"
          /\ pc = "done" => /\ alt_observations = <<C1_Expected>>
                            /\ ref_observations = <<>>

C1_Witness ==
    pc = "done" /\ obs = <<PyStr(S11)>> /\ Len(alt_observations) = 1

\* The integer value of the run of leading digits of a token's 8-character
\* block, "." meaning 0.
LeadingDigitsValue(block) ==
    IF block[1] = "." THEN 0
    ELSE IntOfDigits(SubSeq(block, 1, DigitRunEnd(block, 1) - 1))

\* C2: every decoded token's edit distance is the value of the whole run of
\* leading digits of its trailing 8-character block, and the five flags are the
\* block's final five characters.
C2_Original ==
    pc = "done" =>
        \A k \in 1..Len(matches) :
            LET block == SubSeq(matches[k], 3, 2 + BlockLen)
                e == EntryOf(k - 1)
            IN  /\ e.EditDistance = LeadingDigitsValue(block)
                /\ e.Strand = DictGet(strand_map, block[BlockLen - 4])
                /\ e.Orientation = DictGet(orientation_map, block[BlockLen - 3])
                /\ e.ReadPosition = DictGet(read_pos_map, block[BlockLen - 2])
                /\ e.Softclip = DictGet(softclip_map, block[BlockLen - 1])
                /\ e.Indel = DictGet(indel_map, block[BlockLen])

\* C3: the k-th matched token gets index k from one counter shared by the two
\* groups; each token is in exactly one group, Alternate iff its first letter is
\* "A" or "a"; the index sets are disjoint and cover 0..n-1; indices increase
\* strictly within each group.  Stated of the tokens consumed so far.
C3_SharedIndex ==
    pc \in {"obs_loop", "done"} =>
        /\ Len(ref_observations) + Len(alt_observations) = obs_idx
        /\ pc = "done" => obs_idx = Len(matches)
        /\ \A k \in 0..(obs_idx - 1) :
              /\ HasIndex(alt_observations, k) <=> IsAltToken(matches[k + 1])
              /\ HasIndex(ref_observations, k) <=> ~IsAltToken(matches[k + 1])
              /\ EntryOf(k).count = IntOfDigits(Group(matches[k + 1], 0))
        /\ \A g \in {ref_observations, alt_observations} :
              \A i, j \in 1..Len(g) :
                  i < j => g[i].obs_index < g[j].obs_index

C3_Witness ==
    /\ pc = "done" /\ Len(matches) = 3
    /\ Len(alt_observations) = 2 /\ Len(ref_observations) = 1
    /\ alt_observations[1].obs_index = 0
    /\ alt_observations[2].obs_index = 1
    /\ ref_observations[1].obs_index = 2
    /\ \E m \in 1..3 : Group(matches[m], 1)[1] = "a"

\* C4: decoding one observation-field value never raises; None and "." give two
\* empty groups.
C4_Original ==
    Len(obs) = 1 =>
        /\ pc # "raised"
        /\ (pc = "done" /\ obs[1] \in {PyNone, PyStr(<<".">>)}) =>
              ref_observations = <<>> /\ alt_observations = <<>>

RECURSIVE TokenSum(_, _)
TokenSum(ms, alternate) ==
    IF ms = <<>> THEN 0
    ELSE (IF IsAltToken(Head(ms)) = alternate
          THEN IntOfDigits(Group(Head(ms), 0)) ELSE 0)
         + TokenSum(Tail(ms), alternate)

\* C9: the scale bound shared by the panels is the larger of the summed counts
\* of the Reference tokens and of the Alternate tokens, and 0 when nothing was
\* decoded.
C9_ScaleBound ==
    pc = "done" =>
        LET refSum == TokenSum(matches, FALSE)
            altSum == TokenSum(matches, TRUE)
            bound == IF refSum >= altSum THEN refSum ELSE altSum
        IN  /\ max_count = bound
            /\ matches = <<>> => max_count = 0
            /\ \A chart \in {ref_chart, alt_chart} :
                  ~chart.nodata => chart.domain = <<0, bound>>

C9_Witness ==
    /\ pc = "done"
    /\ ref_observations # <<>> /\ alt_observations # <<>>
    /\ SumCounts(alt_observations) > SumCounts(ref_observations)
    /\ max_count = SumCounts(alt_observations)

----------------------------------------------------------------------------
(* phred_to_prob *)

PyFloat(n) == [tag |-> "float", v |-> n]
PyInf == [tag |-> "inf"]
\* The probability 10 ** x, x in units of 1e-5; 1.0 is Pow10(0).
Pow10(x) == [tag |-> "prob", log10 |-> x]
ProbZero == [tag |-> "prob", zero |-> TRUE]
ProbOne == Pow10(0)

\* phred_value in units of 1e-4, so that -phred_value / 10 is in units of 1e-5
phred_to_prob(phred_value) ==
    IF phred_value = PyNone THEN PyNone ELSE Pow10(0 - phred_value.v)

----------------------------------------------------------------------------
(* visualize_event_probabilities *)

MaxInfo == 2

PROB_ == <<"P", "R", "O", "B", "_">>

StartsWith(s, prefix) ==
    Len(s) >= Len(prefix) /\ SubSeq(s, 1, Len(prefix)) = prefix

\* str.replace(old, ""): every non-overlapping occurrence, left to right
RECURSIVE RemoveAll(_, _)
RemoveAll(s, old) ==
    IF Len(s) < Len(old) THEN s
    ELSE IF SubSeq(s, 1, Len(old)) = old
         THEN RemoveAll(SubSeq(s, Len(old) + 1, Len(s)), old)
         ELSE <<Head(s)>> \o RemoveAll(Tail(s), old)

EventName(key) == RemoveAll(key, PROB_)

ValueLenBad_OnlyEmpty(value) == Len(value) = 0
ValueLenBad(value) == Len(value) # 1

EventProbability(value) ==
    IF value = PyInf THEN ProbZero ELSE phred_to_prob(value)

KeyX == PROB_ \o <<"X">>
KeyNested == PROB_ \o <<"A", "_">> \o PROB_ \o <<"B">>
KeyInner == <<"X", "_">> \o PROB_ \o <<"Y">>
KeyDP == <<"D", "P">>
InfoKeys == {KeyX, KeyNested, KeyInner, KeyDP, PROB_}
InfoValues == {<<PyFloat(0)>>, <<PyFloat(100000)>>, <<PyInf>>, <<PyNone>>,
               <<>>, <<PyFloat(0), PyFloat(100000)>>}

\* A mapping has each key once.
InfoItems ==
    {items \in SeqsUpTo([key : InfoKeys, value : InfoValues], MaxInfo) :
        \A i, j \in 1..Len(items) : i # j => items[i].key # items[j].key}

InitEvent ==
    /\ pc = "event_loop" /\ raised = NoException
    /\ info \in InfoItems
    /\ info_pos = 0 /\ prob_data = <<>> /\ event_df = NoValue
    /\ ObsIdle /\ AfdIdle /\ MainIdle

\* One iteration of the loop over record.info.items().
EventLoop ==
    /\ pc = "event_loop"
    /\ info_pos < Len(info)
    /\ LET key == info[info_pos + 1].key
           value == info[info_pos + 1].value
       IN  IF ~StartsWith(key, PROB_)
           THEN /\ info_pos' = info_pos + 1
                /\ UNCHANGED <<pc, raised, prob_data>>
           ELSE IF ValueLenBad(value)
                THEN /\ pc' = "raised"
                     /\ raised' = [type |-> "ValueError", key |-> key,
                                   found |-> Len(value)]
                     /\ UNCHANGED <<info_pos, prob_data>>
                ELSE /\ prob_data' =
                           Append(prob_data,
                                  [Event |-> EventName(key),
                                   Probability |-> EventProbability(value[1])])
                     /\ info_pos' = info_pos + 1
                     /\ UNCHANGED <<pc, raised>>
    /\ UNCHANGED <<info, event_df>>
    /\ UNCHANGED <<obsVars, afdVars, mainVars>>

\* After the loop: the data frame of the chart that is returned.
EventFinish ==
    /\ pc = "event_loop"
    /\ info_pos = Len(info)
    /\ event_df' = prob_data
    /\ pc' = "done"
    /\ UNCHANGED <<raised, info, info_pos, prob_data>>
    /\ UNCHANGED <<obsVars, afdVars, mainVars>>

NextEvent == EventLoop \/ EventFinish

SpecEvent == InitEvent /\ [][NextEvent]_vars

----------------------------------------------------------------------------
(* Claims about visualize_event_probabilities *)

IsProbItem(item) == StartsWith(item.key, PROB_)
BadItems ==
    {i \in 1..Len(info) : IsProbItem(info[i]) /\ Len(info[i].value) # 1}
WithoutPrefix(key) == SubSeq(key, Len(PROB_) + 1, Len(key))

RECURSIVE PrefixStripped(_)
PrefixStripped(items) ==
    IF items = <<>> THEN <<>>
    ELSE (IF IsProbItem(Head(items))
          THEN <<WithoutPrefix(Head(items).key)>> ELSE <<>>)
         \o PrefixStripped(Tail(items))

\* C5: when every PROB_ value has length 1, the rows are one per key starting
\* with "PROB_", in the mapping's order, each named by its key with only the
\* leading "PROB_" removed.
C5_Original ==
    BadItems = {} =>
        /\ pc # "raised"
        /\ pc = "done" =>
              [i \in 1..Len(event_df) |-> event_df[i].Event]
                  = PrefixStripped(info)

\* C6: a key starting with "PROB_" whose value has a length other than 1 makes
\* the call fail with an error naming that key and the found length; the call
\* returns no rows and never goes past that key.
C6_MalformedFails ==
    BadItems # {} =>
        LET first == CHOOSE i \in BadItems : \A j \in BadItems : i <= j
        IN  /\ pc \in {"event_loop", "raised"}
            /\ event_df = NoValue
            /\ info_pos < first
            /\ pc = "raised" =>
                  /\ info_pos = first - 1
                  /\ raised.type = "ValueError"
                  /\ raised.key = info[first].key
                  /\ raised.found = Len(info[first].value)

C6_Witness ==
    /\ pc = "raised" /\ raised.found = 2
    /\ prob_data # <<>> /\ event_df = NoValue

----------------------------------------------------------------------------
(* visualize_allele_frequency_distribution *)

Tolerance == 10
MaxItems == 3

\* str.split(sep) for a one-character separator
RECURSIVE Split(_, _)
Split(s, sep) ==
    IF \E i \in 1..Len(s) : s[i] = sep
    THEN LET i == CHOOSE k \in 1..Len(s) :
                      s[k] = sep /\ \A m \in 1..(k - 1) : s[m] # sep
         IN  <<SubSeq(s, 1, i - 1)>> \o Split(SubSeq(s, i + 1, Len(s)), sep)
    ELSE <<s>>

\* "=" in part
PartHasEq_Always(part) == TRUE
PartHasEq(part) == \E i \in 1..Len(part) : part[i] = "="

\* float() of the strings of this model, which hold digits, "." and letters
\* that belong to no number: an optional integer part and an optional fraction
\* of at most four digits, with a digit in one of them.
FloatAccepts(s) ==
    /\ \A i \in 1..Len(s) : s[i] \in Digits \cup {"."}
    /\ Cardinality({i \in 1..Len(s) : s[i] = "."}) <= 1
    /\ \E i \in 1..Len(s) : s[i] \in Digits

RECURSIVE PadRight(_, _)
PadRight(ds, n) == IF Len(ds) >= n THEN ds ELSE PadRight(Append(ds, "0"), n)

\* The value of float(s), in units of 1e-4.
FloatOf(s) ==
    LET halves == Split(s, ".")
        frac == IF Len(halves) = 2 THEN halves[2] ELSE <<>>
    IN  PyFloat(10000 * IntOfDigits(halves[1]) + IntOfDigits(PadRight(frac, 4)))

\* freq, phred = part.split("="), float(freq), float(phred) raise a ValueError
\* when there are not two fields or a field is no number.
PartRaises(part) ==
    LET fields == Split(part, "=")
    IN  \/ Len(fields) # 2
        \/ ~FloatAccepts(fields[1])
        \/ ~FloatAccepts(fields[2])

DistributionRow(part) ==
    LET fields == Split(part, "=")
    IN  [AlleleFrequency |-> FloatOf(fields[1]),
         Probability |-> phred_to_prob(FloatOf(fields[2])),
         Type |-> "Distribution"]

Abs(x) == IF x < 0 THEN 0 - x ELSE x

\* abs(d["Allele Frequency"] - af_ml) < 0.001
Near(d, ml) == Abs(d.AlleleFrequency.v - ml.v) < Tolerance

\* next(..., 1.0) over the rows near af_ml, taking the last of them
RECURSIVE MlProb_Last(_, _)
MlProb_Last(data, ml) ==
    IF data = <<>> THEN ProbOne
    ELSE IF Near(data[Len(data)], ml) THEN data[Len(data)].Probability
         ELSE MlProb_Last(SubSeq(data, 1, Len(data) - 1), ml)

\* next(..., 1.0) over the rows near af_ml: the first of them, or 1.0
RECURSIVE MlProb(_, _)
MlProb(data, ml) ==
    IF data = <<>> THEN ProbOne
    ELSE IF Near(Head(data), ml) THEN Head(data).Probability
         ELSE MlProb(Tail(data), ml)

----------------------------------------------------------------------------
(* The AFD fields the calls are made with: pieces joined with commas, a break
   starting the next string of the sequence *)

Pair(txt, freq, phred) ==
    [kind |-> "pair", txt |-> txt, freq |-> freq, phred |-> phred]
NoEq(txt) == [kind |-> "noeq", txt |-> txt]
Broken(txt) == [kind |-> "broken", txt |-> txt]
Break == [kind |-> "break"]

AfdPieces ==
    {Pair(<<"0", ".", "0", "=", "0", ".", "0">>, 0, 0),
     Pair(<<"0", ".", "5", "=", "1", "0", ".", "0">>, 5000, 100000),
     Pair(<<"0", ".", "5", "0", "0", "4", "=", "2", "0">>, 5004, 200000),
     Pair(<<"0", ".", "5", "0", "1", "=", "3", ".", "5">>, 5010, 35000),
     NoEq(<<"j", "u", "n", "k">>),
     Broken(<<"0", ".", "5", "=", "x">>),
     Broken(<<"0", ".", "1", "=", "2", "=", "3">>)}

AfdSources == SeqsUpTo(AfdPieces \cup {Break}, MaxItems)

RECURSIVE JoinComma(_)
JoinComma(pieces) ==
    IF pieces = <<>> THEN <<>>
    ELSE IF Len(pieces) = 1 THEN pieces[1].txt
         ELSE pieces[1].txt \o <<",">> \o JoinComma(Tail(pieces))

\* The strings a source stands for: one per run of pieces between breaks.
RECURSIVE EntriesOf(_, _)
EntriesOf(src, run) ==
    IF src = <<>> THEN <<JoinComma(run)>>
    ELSE IF Head(src) = Break
         THEN <<JoinComma(run)>> \o EntriesOf(Tail(src), <<>>)
         ELSE EntriesOf(Tail(src), Append(run, Head(src)))

AfValues == {<<PyFloat(5000)>>, <<PyFloat(9000)>>, <<>>}

InitAfd ==
    /\ pc = "afd_call" /\ raised = NoException
    /\ af \in AfValues
    /\ \/ afd_src \in AfdSources /\ afd_entries = EntriesOf(afd_src, <<>>)
       \/ afd_src = <<>> /\ afd_entries = <<>>
    /\ af_ml = NoValue /\ entry_pos = 0 /\ parts = <<>>
    /\ afd_data = <<>> /\ afd_df = NoValue
    /\ ObsIdle /\ EventIdle /\ MainIdle

\* af_ml = sample["AF"][0]
AfdBegin ==
    /\ pc = "afd_call"
    /\ IF af = <<>>
       THEN /\ pc' = "raised"
            /\ raised' = [type |-> "IndexError"]
            /\ UNCHANGED af_ml
       ELSE /\ af_ml' = af[1]
            /\ pc' = "afd_entries"
            /\ UNCHANGED raised
    /\ UNCHANGED <<af, afd_src, afd_entries, entry_pos, parts, afd_data,
                   afd_df>>
    /\ UNCHANGED <<obsVars, eventVars, mainVars>>

\* The outer loop takes the next entry and splits it at the commas.
AfdEntry ==
    /\ pc = "afd_entries"
    /\ entry_pos < Len(afd_entries)
    /\ parts' = Split(afd_entries[entry_pos + 1], ",")
    /\ entry_pos' = entry_pos + 1
    /\ pc' = "afd_parts"
    /\ UNCHANGED <<raised, af, afd_src, afd_entries, af_ml, afd_data, afd_df>>
    /\ UNCHANGED <<obsVars, eventVars, mainVars>>

\* One iteration of the inner loop over the parts of an entry.
AfdPart ==
    /\ pc = "afd_parts"
    /\ LET part == Head(parts)
       IN  IF ~PartHasEq(part)
           THEN /\ parts' = Tail(parts)
                /\ pc' = IF Tail(parts) = <<>> THEN "afd_entries"
                         ELSE "afd_parts"
                /\ UNCHANGED <<raised, afd_data>>
           ELSE IF PartRaises(part)
                THEN /\ pc' = "raised"
                     /\ raised' = [type |-> "ValueError", part |-> part]
                     /\ UNCHANGED <<parts, afd_data>>
                ELSE /\ afd_data' = Append(afd_data, DistributionRow(part))
                     /\ parts' = Tail(parts)
                     /\ pc' = IF Tail(parts) = <<>> THEN "afd_entries"
                              ELSE "afd_parts"
                     /\ UNCHANGED raised
    /\ UNCHANGED <<af, afd_src, afd_entries, af_ml, entry_pos, afd_df>>
    /\ UNCHANGED <<obsVars, eventVars, mainVars>>

\* After the loops: the ML estimate row and the data frame that is returned.
AfdFinish ==
    /\ pc = "afd_entries"
    /\ entry_pos = Len(afd_entries)
    /\ afd_data' = Append(afd_data,
                          [AlleleFrequency |-> af_ml,
                           Probability |-> MlProb(afd_data, af_ml),
                           Type |-> "ML Estimate"])
    /\ afd_df' = afd_data'
    /\ pc' = "done"
    /\ UNCHANGED <<raised, af, afd_src, afd_entries, af_ml, entry_pos, parts>>
    /\ UNCHANGED <<obsVars, eventVars, mainVars>>

NextAfd == AfdBegin \/ AfdEntry \/ AfdPart \/ AfdFinish

SpecAfd == InitAfd /\ [][NextAfd]_vars

----------------------------------------------------------------------------
(* Claims about visualize_allele_frequency_distribution *)

\* C7: the output holds exactly one point-estimate row, the last one; its
\* frequency is the point estimate and its probability that of the first
\* Distribution row less than 1e-3 away from the point estimate, or 1.0 when
\* there is none.
C7_PointEstimate ==
    pc = "done" =>
        LET n == Len(afd_df)
            near == {i \in 1..(n - 1) :
                        /\ afd_df[i].AlleleFrequency.v - af[1].v < Tolerance
                        /\ af[1].v - afd_df[i].AlleleFrequency.v < Tolerance}
        IN  /\ n >= 1
            /\ \A i \in 1..n : (afd_df[i].Type = "ML Estimate") <=> (i = n)
            /\ \A i \in 1..(n - 1) : afd_df[i].Type = "Distribution"
            /\ afd_df[n].AlleleFrequency = af[1]
            /\ afd_df[n].Probability =
                  IF near = {} THEN Pow10(0)
                  ELSE afd_df[CHOOSE i \in near :
                                  \A j \in near : i <= j].Probability

C7_Witness ==
    /\ pc = "done" /\ Len(afd_df) = 4
    /\ ~Near(afd_df[1], af_ml)
    /\ Near(afd_df[2], af_ml) /\ Near(afd_df[3], af_ml)
    /\ afd_df[2].Probability # afd_df[3].Probability
    /\ afd_df[4].Probability = afd_df[2].Probability

RECURSIVE PairRows(_)
PairRows(src) ==
    IF src = <<>> THEN <<>>
    ELSE (IF Head(src).kind = "pair"
          THEN <<[AlleleFrequency |-> PyFloat(Head(src).freq),
                  Probability |-> Pow10(0 - Head(src).phred),
                  Type |-> "Distribution"]>>
          ELSE <<>>)
         \o PairRows(Tail(src))

----------------------------------------------------------------------------
(* main_view *)

MaxSamples == 2

\* The pasted text, by what main_view tests of it.  data_contig is the first
\* column of the first line that does not start with "#", or "none".
Records ==
    [empty : {FALSE}, has_prob_defs : BOOLEAN, has_format_defs : BOOLEAN,
     starts_fileformat : BOOLEAN, has_contig : BOOLEAN,
     data_contig : {"none", "chr7"}]
        \cup {[empty |-> TRUE, has_prob_defs |-> FALSE,
               has_format_defs |-> FALSE, starts_fileformat |-> FALSE,
               has_contig |-> FALSE, data_contig |-> "none"]}

\* The header lines main_view puts before the record.
HeaderLines(r) ==
    IF r.has_prob_defs /\ r.has_format_defs THEN <<>>
    ELSE (IF r.starts_fileformat THEN <<>> ELSE <<"##fileformat">>)
         \o (IF r.has_contig THEN <<>>
             ELSE <<<<"##contig",
                      IF r.data_contig = "none" THEN "chr1"
                      ELSE r.data_contig>>>>)
         \o (IF r.has_prob_defs THEN <<>>
             ELSE <<"##INFO PROB_PRESENT", "##INFO PROB_ABSENT",
                    "##INFO PROB_ARTIFACT">>)
         \o (IF r.has_format_defs THEN <<>>
             ELSE <<"##FORMAT AF", "##FORMAT AFD", "##FORMAT DP",
                    "##FORMAT OBS">>)

\* How a step of main_view can end: normally, with an exception that
\* "except Exception" catches, or with one it does not catch.
Outcomes == {"ok", "Exception", "BaseException"}

\* finally: if os.path.exists(tmp_path): os.unlink(tmp_path)
FinallyUnlink_Skipped(exists) == exists
FinallyUnlink(exists) == IF exists THEN FALSE ELSE exists

InitMain ==
    /\ pc = "main_call" /\ raised = NoException
    /\ record \in Records
    /\ header_lines = <<>> /\ tmp_exists = FALSE /\ tmp_created = FALSE
    /\ vcf_open = FALSE /\ sample_names = <<>> /\ sample_pos = 0
    /\ shown = <<>>
    /\ ObsIdle /\ EventIdle /\ AfdIdle

\* A step inside the inner try ends with `out`: on to `next`, or to finally
\* with the exception pending.
TryStep(out, next, at) ==
    IF out = "ok"
    THEN pc' = next /\ UNCHANGED raised
    ELSE pc' = "finally" /\ raised' = [type |-> out, at |-> at]

\* if record: ... the header definitions are added to the text.
MainHeaders ==
    /\ pc = "main_call"
    /\ IF record.empty
       THEN pc' = "returned" /\ UNCHANGED header_lines
       ELSE pc' = "mkstemp" /\ header_lines' = HeaderLines(record)
    /\ UNCHANGED <<raised, record, tmp_exists, tmp_created, vcf_open,
                   sample_names, sample_pos, shown>>
    /\ UNCHANGED <<obsVars, eventVars, afdVars>>

\* tempfile.mkstemp, before the inner try: a failure creates no file and goes
\* to the outer except.
MainMkstemp ==
    /\ pc = "mkstemp"
    /\ \E out \in Outcomes :
          IF out = "ok"
          THEN /\ tmp_exists' = TRUE /\ tmp_created' = TRUE
               /\ pc' = "write"
               /\ UNCHANGED <<raised, shown>>
          ELSE /\ UNCHANGED <<tmp_exists, tmp_created>>
               /\ IF out = "Exception"
                  THEN /\ shown' = Append(shown, "error")
                       /\ pc' = "returned"
                       /\ UNCHANGED raised
                  ELSE /\ pc' = "propagated"
                       /\ raised' = [type |-> out, at |-> "mkstemp"]
                       /\ UNCHANGED shown
    /\ UNCHANGED <<record, header_lines, vcf_open, sample_names, sample_pos>>
    /\ UNCHANGED <<obsVars, eventVars, afdVars>>

\* with os.fdopen(tmp_fd, 'w') as tmp: tmp.write(record)
MainWrite ==
    /\ pc = "write"
    /\ \E out \in Outcomes : TryStep(out, "open", "write")
    /\ UNCHANGED <<record, header_lines, tmp_exists, tmp_created, vcf_open,
                   sample_names, sample_pos, shown>>
    /\ UNCHANGED <<obsVars, eventVars, afdVars>>

\* vcf = pysam.VariantFile(tmp_path)
MainOpen ==
    /\ pc = "open"
    /\ \E out \in Outcomes :
          /\ TryStep(out, "next", "open")
          /\ vcf_open' = (out = "ok")
    /\ UNCHANGED <<record, header_lines, tmp_exists, tmp_created,
                   sample_names, sample_pos, shown>>
    /\ UNCHANGED <<obsVars, eventVars, afdVars>>

\* record = next(vcf); sample_names = list(record.samples.keys()); st.success
MainNext ==
    /\ pc = "next"
    /\ \E out \in Outcomes :
          /\ TryStep(out, "event", "next")
          /\ IF out = "ok"
             THEN /\ \E n \in 0..MaxSamples :
                        sample_names' = [i \in 1..n |-> i]
                  /\ shown' = Append(shown, "success")
             ELSE UNCHANGED <<sample_names, shown>>
    /\ UNCHANGED <<record, header_lines, tmp_exists, tmp_created, vcf_open,
                   sample_pos>>
    /\ UNCHANGED <<obsVars, eventVars, afdVars>>

\* chart1 = plotting.visualize_event_probabilities(record); st.altair_chart
MainEvent ==
    /\ pc = "event"
    /\ \E out \in Outcomes :
          /\ TryStep(out, "samples", "event")
          /\ shown' = IF out = "ok" THEN Append(shown, "chart1") ELSE shown
    /\ UNCHANGED <<record, header_lines, tmp_exists, tmp_created, vcf_open,
                   sample_names, sample_pos>>
    /\ UNCHANGED <<obsVars, eventVars, afdVars>>

\* chart2 = plotting.visualize_allele_frequency_distribution(record, sample_name)
MainAfd ==
    /\ pc = "samples"
    /\ sample_pos < Len(sample_names)
    /\ \E out \in Outcomes :
          /\ TryStep(out, "observations", "afd")
          /\ shown' = IF out = "ok" THEN Append(shown, "chart2") ELSE shown
    /\ UNCHANGED <<record, header_lines, tmp_exists, tmp_created, vcf_open,
                   sample_names, sample_pos>>
    /\ UNCHANGED <<obsVars, eventVars, afdVars>>

\* chart3 = plotting.visualize_observations(record, sample_name)
MainObs ==
    /\ pc = "observations"
    /\ \E out \in Outcomes :
          /\ TryStep(out, "samples", "observations")
          /\ shown' = IF out = "ok" THEN Append(shown, "chart3") ELSE shown
          /\ sample_pos' = IF out = "ok" THEN sample_pos + 1 ELSE sample_pos
    /\ UNCHANGED <<record, header_lines, tmp_exists, tmp_created, vcf_open,
                   sample_names>>
    /\ UNCHANGED <<obsVars, eventVars, afdVars>>

\* vcf.close(), after the loop over the samples
MainClose ==
    /\ pc = "samples"
    /\ sample_pos = Len(sample_names)
    /\ \E out \in Outcomes :
          /\ TryStep(out, "finally", "close")
          /\ vcf_open' = IF out = "ok" THEN FALSE ELSE vcf_open
    /\ UNCHANGED <<record, header_lines, tmp_exists, tmp_created,
                   sample_names, sample_pos, shown>>
    /\ UNCHANGED <<obsVars, eventVars, afdVars>>

\* The finally clause, then the outer "except Exception", which shows the
\* error; any other exception leaves main_view.
MainFinally ==
    /\ pc = "finally"
    /\ tmp_exists' = FinallyUnlink(tmp_exists)
    /\ IF raised = NoException
       THEN pc' = "returned" /\ UNCHANGED <<raised, shown>>
       ELSE IF raised.type = "Exception"
            THEN /\ shown' = Append(shown, "error")
                 /\ pc' = "returned"
                 /\ UNCHANGED raised
            ELSE pc' = "propagated" /\ UNCHANGED <<raised, shown>>
    /\ UNCHANGED <<record, header_lines, tmp_created, vcf_open, sample_names,
                   sample_pos>>
    /\ UNCHANGED <<obsVars, eventVars, afdVars>>

NextMain ==
    \/ MainHeaders \/ MainMkstemp \/ MainWrite \/ MainOpen \/ MainNext
    \/ MainEvent \/ MainAfd \/ MainObs \/ MainClose \/ MainFinally

SpecMain == InitMain /\ [][NextMain]_vars

----------------------------------------------------------------------------
(* Claims about main_view *)

\* C10: once main_view has ended, by a return or by an exception it does not
\* catch, the temporary file it created no longer exists, whichever step ended
\* the run.
C10_TempFileRemoved ==
    (pc \in {"returned", "propagated"} /\ ~record.empty) => ~tmp_exists

C10_Witness ==
    /\ pc = "returned" /\ tmp_created /\ ~tmp_exists
    /\ raised.type = "Exception" /\ raised.at = "observations"
    /\ sample_pos = 1

====
